---------------------------- MODULE Spec2Model ----------------------------
(***************************************************************************)
(* WellLog-AI backend (src/backend/server.js): the LAS parser, the SQLite  *)
(* store behind the HTTP handlers, and the read / interpret handlers.      *)
(*                                                                         *)
(* Text.  A line is the sequence of its whitespace-separated tokens (what  *)
(* line.trim().split(/\s+/) yields; the empty line is <<>>), and a token   *)
(* is a sequence of one-character strings, so startsWith, includes,        *)
(* replace(/[^A-Za-z0-9]/g,'') and parseFloat are computed on characters.  *)
(*                                                                         *)
(* Numbers.  A JavaScript number is an integer count of tenths (100.0 is   *)
(* 1000, 55.2 is 552); the tokens of the model carry at most one           *)
(* fractional digit and no exponent.  Infinity is the integer Infinity,    *)
(* larger than every number a token can spell.  A value that may also be   *)
(* NaN, null or undefined is a record [t, v].                              *)
(***************************************************************************)
EXTENDS Integers, Sequences, FiniteSets, TLC

VARIABLES
    readable,        \* whether fs.readFileSync(filePath) succeeds
    content,         \* lines: the file split on '\n' (each line its tokens)
    pc,              \* position inside parseLASFile
    i,               \* loop index of the running loop (0-based, as in the code)
    curves,          \* let curves = []
    data,            \* let data = []
    dataPointCount,  \* let dataPointCount = 0
    minDepth,        \* let minDepth = Infinity
    maxDepth,        \* let maxDepth = -Infinity
    dataStartIndex,  \* let dataStartIndex = 0
    files,           \* table files (one row per upload; the uploaded file's lines stand for file_path)
    well_data,       \* table well_data, in rowid order
    pending,         \* per file id: the stmt.run calls queued and not yet executed
    res,             \* the last HTTP response sent
    uploads          \* per concurrent upload request: how far its handler is

parserVars == <<readable, content, pc, i, curves, data, dataPointCount,
                minDepth, maxDepth, dataStartIndex>>
storeVars == <<files, well_data, pending, res, uploads>>
vars == <<readable, content, pc, i, curves, data, dataPointCount,
          minDepth, maxDepth, dataStartIndex, files, well_data, pending, res,
          uploads>>

---------------------------------------------------------------------------
(* Bounds of the model *)

MaxLines == 4

\* the upload requests that may be in progress at once
ConcurrentUploads == 2

\* no upload request is in progress
NoUploads == [r \in 1..ConcurrentUploads |-> [pc |-> "idle"]]

---------------------------------------------------------------------------
(* JavaScript values *)

Infinity == 1000000
NegInfinity == 0 - Infinity

Num(n) == [t |-> "num", v |-> n]
NaN == [t |-> "nan", v |-> 0]
Null == [t |-> "null", v |-> 0]
Undefined == [t |-> "undefined", v |-> 0]
isNaN(x) == x.t # "num"

Min(a, b) == IF a <= b THEN a ELSE b
Max(a, b) == IF a >= b THEN a ELSE b

Range(s) == {s[k] : k \in DOMAIN s}
SeqsUpTo(S, n) == UNION {[1..k -> S] : k \in 0..n}

---------------------------------------------------------------------------
(* Characters and tokens *)

Digits == {"0", "1", "2", "3", "4", "5", "6", "7", "8", "9"}
Upper == {"A", "B", "C", "D", "E", "F", "G", "H", "I", "J", "K", "L", "M",
          "N", "O", "P", "Q", "R", "S", "T", "U", "V", "W", "X", "Y", "Z"}
Lower == {"a", "b", "c", "d", "e", "f", "g", "h", "i", "j", "k", "l", "m",
          "n", "o", "p", "q", "r", "s", "t", "u", "v", "w", "x", "y", "z"}

DigitVal(c) ==
    CASE c = "0" -> 0 [] c = "1" -> 1 [] c = "2" -> 2 [] c = "3" -> 3
      [] c = "4" -> 4 [] c = "5" -> 5 [] c = "6" -> 6 [] c = "7" -> 7
      [] c = "8" -> 8 [] c = "9" -> 9

\* s.startsWith(p)
StartsWith(s, p) == Len(s) >= Len(p) /\ SubSeq(s, 1, Len(p)) = p

\* s.includes(p)
Includes(s, p) ==
    \E k \in 1..(Len(s) - Len(p) + 1) : SubSeq(s, k, k + Len(p) - 1) = p

\* the regular expression class [A-Za-z0-9]
IsAlnum(c) == c \in Upper \cup Lower \cup Digits

\* the number of digits of s from position k on
RECURSIVE DigitRun(_, _)
DigitRun(s, k) ==
    IF k <= Len(s) /\ s[k] \in Digits THEN 1 + DigitRun(s, k + 1) ELSE 0

\* the value of the n digits of s from position k on
RECURSIVE DigitsVal(_, _, _)
DigitsVal(s, k, n) ==
    IF n = 0 THEN 0 ELSE DigitsVal(s, k, n - 1) * 10 + DigitVal(s[k + n - 1])

\* parseFloat(s): an optional sign, then "Infinity" or the longest prefix
\* digits [. digits] with at least one digit; what follows is ignored, and a
\* token with no such prefix is NaN.  In tenths.
ParseFloat(s) ==
    LET signed == Len(s) >= 1 /\ s[1] \in {"+", "-"}
        sgn == IF signed /\ s[1] = "-" THEN 0 - 1 ELSE 1
        b == IF signed THEN 2 ELSE 1
        ni == DigitRun(s, b)
        dot == b + ni <= Len(s) /\ s[b + ni] = "."
        nf == IF dot THEN DigitRun(s, b + ni + 1) ELSE 0
        tenths == IF nf >= 1 THEN DigitVal(s[b + ni + 1]) ELSE 0
    IN  IF StartsWith(SubSeq(s, b, Len(s)),
                      <<"I", "n", "f", "i", "n", "i", "t", "y">>)
        THEN Num(sgn * Infinity)
        ELSE IF ni + nf = 0 THEN NaN
        ELSE Num(sgn * (DigitsVal(s, b, ni) * 10 + tenths))

---------------------------------------------------------------------------
(* Lines *)

\* line.trim().startsWith(p), for a p without whitespace
LineStartsWith(line, p) == Len(line) >= 1 /\ StartsWith(line[1], p)

\* line.includes(p), for a p without whitespace
LineIncludes(line, p) == \E k \in DOMAIN line : Includes(line[k], p)

\* line.split(/\s+/) of a trimmed line: the empty line splits into [""]
SplitWs(line) == IF line = <<>> THEN << <<>> >> ELSE line

---------------------------------------------------------------------------
(* Tokens and lines of the input files *)

tDEPTH_FT == <<"D", "E", "P", "T", "H", ".", "F", "T">>
tGR_API == <<"G", "R", ".", "A", "P", "I">>
tRES_OHM == <<"R", "E", "S", ".", "O", "H", "M">>
tD_EPT == <<"D", ".", "E", "P", "T">>
tGR == <<"G", "R">>
tRES == <<"R", "E", "S">>
tDotAPI == <<".", "A", "P", "I">>
tDots == <<".", ".", ".">>
tColon == <<":">>
tHashDot == <<"#", "G", "R", ".">>
tTildeC == <<"~", "C">>
tTildeA == <<"~", "A">>
tAbc == <<"a", "b", "c">>
t1 == <<"1">>
t2 == <<"2">>
t100_0 == <<"1", "0", "0", ".", "0">>
t55_2 == <<"5", "5", ".", "2">>
t12_1 == <<"1", "2", ".", "1">>
t50 == <<"5", "0">>
t7x == <<"7", "x">>

\* the names the claims speak of
nGR == <<"G", "R">>
nRES == <<"R", "E", "S">>
nDEPT == <<"D", "E", "P", "T">>

HeaderLines ==
    { <<tDEPTH_FT, tColon>>,    \* DEPTH.FT :
      <<tGR_API, tColon>>,      \* GR.API :
      <<tRES_OHM, tColon>>,     \* RES.OHM :
      <<tGR, tDotAPI>>,         \* GR .API
      <<tD_EPT, tColon>>,       \* D.EPT :
      <<tDots, tColon>>,        \* ... :
      <<tHashDot, tColon>>,     \* #GR. :
      <<tGR_API>> }             \* GR.API   (a single token)

Markers == { <<tTildeA>> }

DataLines ==
    { <<t100_0, t55_2, t12_1>>, \* 100.0  55.2  12.1
      <<tAbc, t1, t2>>,         \* abc 1 2
      <<t50>>,                  \* 50
      <<t50, tAbc, t7x>>,       \* 50 abc 7x
      <<>> }                    \* the empty line

\* header lines, then a data-section marker or none, then data lines: at
\* most MaxLines lines beside the marker
LASFiles ==
    UNION { { h \o m \o d : h \in [1..nh -> HeaderLines],
                            m \in {<<>>} \cup {<<k>> : k \in Markers},
                            d \in SeqsUpTo(DataLines, MaxLines - nh) }
            : nh \in 0..MaxLines }

\* Scenario A's file
ScenarioA ==
    << <<tDEPTH_FT, tColon>>, <<tGR_API, tColon>>, <<tRES_OHM, tColon>>,
       <<tTildeA>>, <<t100_0, t55_2, t12_1>> >>

---------------------------------------------------------------------------
(* parseLASFile, loop by loop *)

HeaderScanLimit == 200

\* line.startsWith('~A') || line.startsWith('~ASCII')
IsDataMarker(line) ==
    \/ LineStartsWith(line, <<"~", "A">>)
    \/ LineStartsWith(line, <<"~", "A", "S", "C", "I", "I">>)

\* parts[0].replace(/[^A-Za-z0-9]/g, '')
NormalizeName(tok) == SelectSeq(tok, IsAlnum)

\* the two conditions under which a header line names a curve
IsCurveCandidate(line) ==
    /\ LineIncludes(line, <<".">>)
    /\ ~LineStartsWith(line, <<"#">>)
    /\ LET parts == SplitWs(line)
       IN  Len(parts) >= 2 /\ parts[1] # <<>>
           /\ ~Includes(parts[1], <<"D", "E", "P", "T">>)

\* AddCurve without the curves.includes test
AddCurveNoDedup(cs, line) ==
    IF IsCurveCandidate(line)
    THEN Append(cs, NormalizeName(SplitWs(line)[1]))
    ELSE cs

\* the body of the first loop for one line that is no data marker
AddCurve(cs, line) ==
    IF IsCurveCandidate(line)
    THEN LET curveName == NormalizeName(SplitWs(line)[1])
         IN  IF curveName \in Range(cs) THEN cs ELSE Append(cs, curveName)
    ELSE cs

\* if (curves[j-1]): the catalog has a non-empty name at 0-based index k
HasCurve(cs, k) == k + 1 <= Len(cs) /\ cs[k + 1] # <<>>

\* line.length === 0 || line.startsWith('#')
IsSkippedLine(line) == line = <<>> \/ LineStartsWith(line, <<"#">>)

\* values.length > 1 and a depth that parses
HasDepth(line) ==
    ~IsSkippedLine(line) /\ Len(line) > 1 /\ ~isNaN(ParseFloat(line[1]))

\* the samples the inner loop pushes for one line with a depth
LineSamples(cs, line) ==
    LET depth == ParseFloat(line[1]).v
        js == SelectSeq([k \in 1..(Len(line) - 1) |-> k],
                        LAMBDA j : HasCurve(cs, j - 1)
                                   /\ ~isNaN(ParseFloat(line[j + 1])))
    IN  [m \in 1..Len(js) |->
            [depth |-> depth, curveName |-> cs[js[m]],
             value |-> ParseFloat(line[js[m] + 1]).v]]

\* DataStep without the isNaN(depth) test
DataStepDepthUnchecked(st, cs, line) ==
    IF ~IsSkippedLine(line) /\ Len(line) > 1
    THEN [data |-> st.data \o LineSamples(cs, line),
          minDepth |-> Min(st.minDepth, ParseFloat(line[1]).v),
          maxDepth |-> Max(st.maxDepth, ParseFloat(line[1]).v)]
    ELSE st

\* the body of the third loop for one line: the new data, minDepth, maxDepth
DataStep(st, cs, line) ==
    IF HasDepth(line)
    THEN [data |-> st.data \o LineSamples(cs, line),
          minDepth |-> Min(st.minDepth, ParseFloat(line[1]).v),
          maxDepth |-> Max(st.maxDepth, ParseFloat(line[1]).v)]
    ELSE st

\* const content = fs.readFileSync(filePath, 'utf8'), inside try/catch
ReadFile ==
    /\ pc = "read"
    /\ pc' = IF readable THEN "curves" ELSE "rejected"
    /\ UNCHANGED <<readable, content, i, curves, data, dataPointCount,
                   minDepth, maxDepth, dataStartIndex>>
    /\ UNCHANGED storeVars

\* one iteration of "Find curve names", or its end
FindCurvesStep ==
    /\ pc = "curves"
    /\ IF i < Min(HeaderScanLimit, Len(content))
          /\ ~IsDataMarker(content[i + 1])
       THEN /\ curves' = AddCurve(curves, content[i + 1])
            /\ i' = i + 1
            /\ pc' = pc
       ELSE /\ curves' = curves
            /\ i' = 0
            /\ pc' = "start"
    /\ UNCHANGED <<readable, content, data, dataPointCount, minDepth,
                   maxDepth, dataStartIndex>>
    /\ UNCHANGED storeVars

\* the index after the first data-marker line, 0 when there is none
DataStart(lines) ==
    LET ms == {k \in 1..Len(lines) : IsDataMarker(lines[k])}
    IN  IF ms = {} THEN 0 ELSE CHOOSE k \in ms : \A n \in ms : k <= n

\* "Find data start", the whole loop
FindDataStart ==
    /\ pc = "start"
    /\ dataStartIndex' = DataStart(content)
    /\ i' = DataStart(content)
    /\ pc' = "data"
    /\ UNCHANGED <<readable, content, curves, data, dataPointCount,
                   minDepth, maxDepth>>
    /\ UNCHANGED storeVars

\* one iteration of "Parse data"
ParseDataStep ==
    /\ pc = "data"
    /\ i < Len(content)
    /\ LET st == DataStep([data |-> data, minDepth |-> minDepth,
                           maxDepth |-> maxDepth], curves, content[i + 1])
       IN  /\ data' = st.data
           /\ dataPointCount' = dataPointCount + (Len(st.data) - Len(data))
           /\ minDepth' = st.minDepth
           /\ maxDepth' = st.maxDepth
    /\ i' = i + 1
    /\ UNCHANGED <<readable, content, pc, curves, dataStartIndex>>
    /\ UNCHANGED storeVars

\* resolve({ curves, data, depthRange: { min: minDepth, max: maxDepth } })
Resolve ==
    /\ pc = "data"
    /\ i >= Len(content)
    /\ pc' = "resolved"
    /\ UNCHANGED <<readable, content, i, curves, data, dataPointCount,
                   minDepth, maxDepth, dataStartIndex>>
    /\ UNCHANGED storeVars

ParserIdle ==
    /\ files = <<>>
    /\ well_data = <<>>
    /\ pending = <<>>
    /\ res = [op |-> "none"]
    /\ uploads = NoUploads

\* ParserInit, were the depth range to start at zero
ParserInitZeroRange ==
    /\ readable \in BOOLEAN
    /\ content \in (IF readable THEN LASFiles ELSE {<<>>})
    /\ pc = "read"
    /\ i = 0
    /\ curves = <<>>
    /\ data = <<>>
    /\ dataPointCount = 0
    /\ minDepth = 0
    /\ maxDepth = 0
    /\ dataStartIndex = 0
    /\ ParserIdle

ParserInit ==
    /\ readable \in BOOLEAN
    /\ content \in (IF readable THEN LASFiles ELSE {<<>>})
    /\ pc = "read"
    /\ i = 0
    /\ curves = <<>>
    /\ data = <<>>
    /\ dataPointCount = 0
    /\ minDepth = Infinity
    /\ maxDepth = NegInfinity
    /\ dataStartIndex = 0
    /\ ParserIdle

ParserNext ==
    \/ ReadFile
    \/ FindCurvesStep
    \/ FindDataStart
    \/ ParseDataStep
    \/ Resolve

ParserSpec == ParserInit /\ [][ParserNext]_vars

---------------------------------------------------------------------------
(* parseLASFile as the upload handler awaits it *)

RECURSIVE FindCurves(_, _, _)
FindCurves(lines, k, cs) ==
    IF k < Min(HeaderScanLimit, Len(lines)) /\ ~IsDataMarker(lines[k + 1])
    THEN FindCurves(lines, k + 1, AddCurve(cs, lines[k + 1]))
    ELSE cs

RECURSIVE ParseData(_, _, _, _)
ParseData(lines, k, st, cs) ==
    IF k < Len(lines)
    THEN ParseData(lines, k + 1, DataStep(st, cs, lines[k + 1]), cs)
    ELSE st

ParseLASFile(lines) ==
    LET cs == FindCurves(lines, 0, <<>>)
        st == ParseData(lines, DataStart(lines),
                        [data |-> <<>>, minDepth |-> Infinity,
                         maxDepth |-> NegInfinity], cs)
    IN  [curves |-> cs, data |-> st.data,
         depthRange |-> [min |-> st.minDepth, max |-> st.maxDepth]]

---------------------------------------------------------------------------
(* The store and the requests *)

MaxFiles == 2
MaxStoreLines == 2

tDotOHM == <<".", "O", "H", "M">>
t150 == <<"1", "5", "0">>
tUndefined == <<"u", "n", "d", "e", "f", "i", "n", "e", "d">>
nZZ == <<"Z", "Z">>

StoreHeader == << <<tGR, tDotAPI>>, <<tRES, tDotOHM>>, <<tTildeA>> >>

StoreDataLines ==
    { <<t50, t1, t2>>,              \* 50 1 2
      <<t100_0, t55_2>> }           \* 100.0  55.2

\* the files uploaded to the server
StoreFiles ==
    { StoreHeader \o d : d \in SeqsUpTo(StoreDataLines, MaxStoreLines) }

\* :fileId of a read request; the largest is the id of no file
QueryFileIds == 1..(MaxFiles + 1)

\* req.query.curves split on ','; <<>> for a missing or empty parameter
CurveLists == { <<>>, <<nGR>>, <<nGR, nRES>>, <<nZZ, nRES>> }

\* req.query.minDepth and maxDepth; <<>> for a missing or empty parameter
DepthParams ==
    { <<<<>>, <<>>>>, <<tUndefined, tUndefined>>, <<t50, t150>>,
      <<t50, t50>>, <<t100_0, t150>>, <<t50, tAbc>> }

\* req.body.minDepth and maxDepth of /api/interpret
BodyDepths ==
    { <<Undefined, Undefined>>, <<Num(500), Num(1500)>>,
      <<Num(1000), Num(1500)>>, <<Num(0), Num(1000)>> }

\* JSON.stringify writes Infinity and -Infinity as null
Json(x) == IF x = Infinity \/ x = NegInfinity THEN Null ELSE Num(x)

\* the rows of well_data with file_id = fid, as the set of their positions
RowsOf(fid) == {k \in DOMAIN well_data : well_data[k].file_id = fid}

Row(fid, p) ==
    [file_id |-> fid, depth |-> p.depth, curve_name |-> p.curveName,
     value |-> p.value]

\* binary collation of names made of [A-Za-z0-9]
AlnumOrder ==
    <<"0", "1", "2", "3", "4", "5", "6", "7", "8", "9",
      "A", "B", "C", "D", "E", "F", "G", "H", "I", "J", "K", "L", "M",
      "N", "O", "P", "Q", "R", "S", "T", "U", "V", "W", "X", "Y", "Z",
      "a", "b", "c", "d", "e", "f", "g", "h", "i", "j", "k", "l", "m",
      "n", "o", "p", "q", "r", "s", "t", "u", "v", "w", "x", "y", "z">>

CharCode(c) == CHOOSE k \in DOMAIN AlnumOrder : AlnumOrder[k] = c

RECURSIVE LexLess(_, _)
LexLess(a, b) ==
    IF b = <<>> THEN FALSE
    ELSE IF a = <<>> THEN TRUE
    ELSE IF a[1] = b[1] THEN LexLess(Tail(a), Tail(b))
    ELSE CharCode(a[1]) < CharCode(b[1])

\* the names of S in ascending order
RECURSIVE SortNames(_)
SortNames(S) ==
    IF S = {} THEN <<>>
    ELSE LET m == CHOOSE x \in S : \A y \in S \ {x} : LexLess(x, y)
         IN  <<m>> \o SortNames(S \ {m})

\* SELECT DISTINCT curve_name FROM well_data WHERE file_id = ? ORDER BY curve_name
CurvesOf(fid) == SortNames({well_data[k].curve_name : k \in RowsOf(fid)})

\* the depth range of file fid, were it the one the parser computed at upload
DepthRangeRowCached(fid) ==
    IF fid \in DOMAIN files
    THEN LET dr == ParseLASFile(files[fid].lines).depthRange
         IN  [minDepth |-> Json(dr.min), maxDepth |-> Json(dr.max)]
    ELSE [minDepth |-> Null, maxDepth |-> Null]

\* SELECT MIN(depth) as minDepth, MAX(depth) as maxDepth FROM well_data
\* WHERE file_id = ?: an aggregate always yields one row, of NULLs over no rows
DepthRangeRow(fid) ==
    LET ds == {well_data[k].depth : k \in RowsOf(fid)}
    IN  IF ds = {} THEN [minDepth |-> Null, maxDepth |-> Null]
        ELSE [minDepth |-> Num(CHOOSE d \in ds : \A e \in ds : d <= e),
              maxDepth |-> Num(CHOOSE d \in ds : \A e \in ds : d >= e)]

\* depth BETWEEN lo AND hi, with the upper bound exclusive
BetweenExclusive(d, lo, hi) ==
    lo.t = "num" /\ hi.t = "num" /\ lo.v <= d /\ d < hi.v

\* depth BETWEEN ? AND ?: NaN is bound as NULL, and a comparison with NULL
\* selects no row
Between(d, lo, hi) ==
    lo.t = "num" /\ hi.t = "num" /\ lo.v <= d /\ d <= hi.v

\* the orders ORDER BY depth may return the rows at positions S in: any
\* order of non-decreasing depth (rows of equal depth in any order)
RECURSIVE DepthOrders(_)
DepthOrders(S) ==
    IF S = {} THEN {<<>>}
    ELSE UNION { {<<well_data[k]>> \o t : t \in DepthOrders(S \ {k})}
                 : k \in {m \in S : \A n \in S :
                                       well_data[m].depth <= well_data[n].depth} }

\* the positions selected by WHERE file_id = ? AND curve_name IN (...)
\* [AND depth BETWEEN ? AND ?]
Selected(fid, cl, ranged, lo, hi) ==
    {k \in RowsOf(fid) :
        /\ well_data[k].curve_name \in Range(cl)
        /\ ranged => Between(well_data[k].depth, lo, hi)}

\* SELECT depth, curve_name, value of a row
Columns(r) == [depth |-> r.depth, curve_name |-> r.curve_name, value |-> r.value]

\* the alphanumeric names every object inherits from Object.prototype
nConstructor == <<"c", "o", "n", "s", "t", "r", "u", "c", "t", "o", "r">>
InheritedNames ==
    { nConstructor,
      <<"h", "a", "s", "O", "w", "n", "P", "r", "o", "p", "e", "r", "t", "y">>,
      <<"i", "s", "P", "r", "o", "t", "o", "t", "y", "p", "e", "O", "f">>,
      <<"p", "r", "o", "p", "e", "r", "t", "y", "I", "s", "E", "n", "u", "m", "e", "r", "a", "b", "l", "e">>,
      <<"t", "o", "L", "o", "c", "a", "l", "e", "S", "t", "r", "i", "n", "g">>,
      <<"t", "o", "S", "t", "r", "i", "n", "g">>,
      <<"v", "a", "l", "u", "e", "O", "f">> }

\* if (!result[row.curve_name]) result[row.curve_name] = [] finds the
\* inherited value under an inherited name, so no array is made and the
\* push that follows throws a TypeError
GroupingThrows(rows) ==
    \E k \in DOMAIN rows : rows[k].curve_name \in InheritedNames

\* rows.forEach(row => result[row.curve_name].push({depth, value})), for
\* rows of which none bears an inherited name
Assemble(rows) ==
    [c \in {rows[k].curve_name : k \in DOMAIN rows} |->
        LET mine == SelectSeq(rows, LAMBDA r : r.curve_name = c)
        IN  [k \in DOMAIN mine |-> [depth |-> mine[k].depth,
                                    value |-> mine[k].value]]]

Idle == [op |-> "none"]

---------------------------------------------------------------------------
(* The statistics of /api/interpret.  toFixed(2) yields a decimal string   *)
(* with two fractional digits, modelled as the integer count of            *)
(* hundredths it spells.                                                   *)

RECURSIVE Sum(_)
Sum(vs) == IF vs = <<>> THEN 0 ELSE vs[1] + Sum(Tail(vs))

SumSq(vs) == Sum([k \in DOMAIN vs |-> vs[k] * vs[k]])

MinOf(vs) == CHOOSE x \in Range(vs) : \A y \in Range(vs) : x <= y
MaxOf(vs) == CHOOSE x \in Range(vs) : \A y \in Range(vs) : x >= y

\* a / n rounded to the nearest integer, halves away from zero
RoundDiv(a, n) ==
    IF a >= 0 THEN (2 * a + n) \div (2 * n)
    ELSE 0 - ((2 * (0 - a) + n) \div (2 * n))

\* n * n times the population variance of vs, in squared tenths
ScaledVariance(vs) == Len(vs) * SumSq(vs) - Sum(vs) * Sum(vs)

\* Math.sqrt(variance).toFixed(2): the r with r - 1/2 <= 100 * sigma < r + 1/2
StdDevHundredths(vs) ==
    LET n == Len(vs)
        d == 400 * ScaledVariance(vs)
    IN  CHOOSE r \in 0..(5 * (MaxOf(vs) - MinOf(vs)) + 1) :
            /\ (r = 0 \/ (2 * r - 1) * (2 * r - 1) * n * n <= d)
            /\ d < (2 * r + 1) * (2 * r + 1) * n * n

\* interpretations[curve] for the values of one curve
Statistics(curve, vs) ==
    [statistics |->
        [average |-> RoundDiv(10 * Sum(vs), Len(vs)),
         minimum |-> 10 * MinOf(vs),
         maximum |-> 10 * MaxOf(vs),
         stdDeviation |-> StdDevHundredths(vs),
         points |-> Len(vs)],
     summary |->
        [curve |-> curve, points |-> Len(vs),
         avg |-> RoundDiv(10 * Sum(vs), Len(vs)),
         min |-> 10 * MinOf(vs), max |-> 10 * MaxOf(vs)]]

\* parseFloat of a JSON body value: a number is itself, undefined and null
\* are NaN
JsParseFloat(x) == IF x.t = "num" THEN x ELSE NaN

\* JSON.stringify of a number that may be NaN
JsonNum(x) == IF x.t = "num" THEN Json(x.v) ELSE Null

---------------------------------------------------------------------------
(* The handlers.  A handler runs when no response is in flight (res is     *)
(* Idle) and leaves its response in res; Deliver hands it to the client.   *)
(* The statements a handler queues on the database run later, one per      *)
(* ExecInsert or FailInsert, between two requests.                         *)

\* app.post('/api/upload') with a readable file: parse, insert the file row,
\* queue one stmt.run per sample, respond
Upload(file) ==
    /\ res = Idle
    /\ Len(files) < MaxFiles
    /\ LET parsedData == ParseLASFile(file)
           fileId == Len(files) + 1
       IN  /\ files' = Append(files, [id |-> fileId, lines |-> file])
           /\ pending' = Append(pending,
                                [k \in DOMAIN parsedData.data |->
                                    Row(fileId, parsedData.data[k])])
           /\ res' = [op |-> "upload", status |-> 200, fileId |-> fileId,
                      curves |-> parsedData.curves,
                      depthRange |-> [min |-> Json(parsedData.depthRange.min),
                                      max |-> Json(parsedData.depthRange.max)],
                      dataPoints |-> Len(parsedData.data)]
    /\ UNCHANGED well_data
    /\ UNCHANGED parserVars
    /\ UNCHANGED uploads

\* app.post('/api/upload') without a file: 400
UploadNoFile ==
    /\ res = Idle
    /\ res' = [op |-> "upload", status |-> 400]
    /\ UNCHANGED <<files, well_data, pending>>
    /\ UNCHANGED parserVars
    /\ UNCHANGED uploads

\* the upload of an unreadable file, were the file row inserted before the
\* parse
UploadUnreadableFileRowFirst ==
    /\ res = Idle
    /\ Len(files) < MaxFiles
    /\ files' = Append(files, [id |-> Len(files) + 1, lines |-> <<>>])
    /\ pending' = Append(pending, <<>>)
    /\ res' = [op |-> "upload", status |-> 500]
    /\ UNCHANGED well_data
    /\ UNCHANGED parserVars
    /\ UNCHANGED uploads

\* app.post('/api/upload') when parseLASFile rejects: the catch answers 500
UploadUnreadable ==
    /\ res = Idle
    /\ res' = [op |-> "upload", status |-> 500]
    /\ UNCHANGED <<files, well_data, pending>>
    /\ UNCHANGED parserVars
    /\ UNCHANGED uploads

\* the database runs the next queued stmt.run of file fid
ExecInsert(fid) ==
    /\ res = Idle
    /\ fid \in DOMAIN pending
    /\ pending[fid] # <<>>
    /\ well_data' = Append(well_data, Head(pending[fid]))
    /\ pending' = [pending EXCEPT ![fid] = Tail(@)]
    /\ UNCHANGED <<files, res>>
    /\ UNCHANGED parserVars
    /\ UNCHANGED uploads

\* the rows of well_data, less those of file fid beyond its first keep rows
KeepPrefix(fid, keep) ==
    LET kept(k) == \/ well_data[k].file_id # fid
                   \/ Cardinality({m \in RowsOf(fid) : m <= k}) <= keep
        F[k \in 0..Len(well_data)] ==
            IF k = 0 THEN <<>>
            ELSE IF kept(k) THEN Append(F[k - 1], well_data[k]) ELSE F[k - 1]
    IN  F[Len(well_data)]

\* the next queued stmt.run of file fid fails in the database.  It was
\* called without a callback, so the Statement emits 'error', which has no
\* listener: the process ends and no queued statement runs any more.  The
\* upload's response was sent when the statements were queued.  BEGIN and
\* COMMIT are statements of their own, not ordered against the queue of
\* stmt, so of the file's rows inserted so far those from some point on
\* may be in a transaction still open, which is rolled back: the first
\* keep rows survive.  The requests that follow are served after a restart.
FailInsert(fid) ==
    /\ \/ res = Idle
       \/ res.op = "upload" /\ res.status = 200 /\ res.fileId = fid
    /\ fid \in DOMAIN pending
    /\ pending[fid] # <<>>
    /\ \E keep \in 0..Cardinality(RowsOf(fid)) :
          well_data' = KeepPrefix(fid, keep)
    /\ pending' = [f \in DOMAIN pending |-> <<>>]
    /\ UNCHANGED <<files, res>>
    /\ UNCHANGED parserVars
    /\ UNCHANGED uploads

\* app.get('/api/files/:fileId/curves')
GetCurves(fid) ==
    /\ res = Idle
    /\ res' = [op |-> "curves", status |-> 200, fileId |-> fid,
               body |-> CurvesOf(fid)]
    /\ UNCHANGED <<files, well_data, pending>>
    /\ UNCHANGED parserVars
    /\ UNCHANGED uploads

\* app.get('/api/files/:fileId/depth-range'): res.json(row || {0, 0})
GetDepthRange(fid) ==
    /\ res = Idle
    /\ res' = [op |-> "depth-range", status |-> 200, fileId |-> fid,
               body |-> DepthRangeRow(fid)]
    /\ UNCHANGED <<files, well_data, pending>>
    /\ UNCHANGED parserVars
    /\ UNCHANGED uploads

\* what the client gets when the callback of db.all throws: no answer
\* (status 0), as the exception is uncaught and ends the process
Uncaught(op, fid, cl, dp, rows) ==
    [op |-> op, status |-> 0, fileId |-> fid, curves |-> cl,
     minDepth |-> dp[1], maxDepth |-> dp[2], rows |-> rows]

\* the status of /data for no rows, were it that of /api/interpret
DataStatusNotFound(rows) == IF rows = <<>> THEN 404 ELSE 200

\* the status of /data after db.all succeeded
DataStatus(rows) == 200

\* app.get('/api/files/:fileId/data'); rows are those db.all returned
GetData(fid, cl, dp) ==
    /\ res = Idle
    /\ IF cl = <<>>
       THEN res' = [op |-> "data", status |-> 400, fileId |-> fid,
                    curves |-> cl, minDepth |-> dp[1], maxDepth |-> dp[2]]
       ELSE LET ranged == /\ dp[1] # <<>> /\ dp[2] # <<>>
                          /\ dp[1] # tUndefined /\ dp[2] # tUndefined
                lo == ParseFloat(dp[1])
                hi == ParseFloat(dp[2])
            IN  \E found \in DepthOrders(Selected(fid, cl, ranged, lo, hi)) :
                    LET rows == [k \in DOMAIN found |-> Columns(found[k])]
                    IN  IF GroupingThrows(rows)
                        THEN res' = Uncaught("data", fid, cl, dp, rows)
                        ELSE res' = [op |-> "data", status |-> DataStatus(rows),
                                     fileId |-> fid, curves |-> cl,
                                     minDepth |-> dp[1], maxDepth |-> dp[2],
                                     rows |-> rows, body |-> Assemble(rows)]
    /\ pending' = IF res'.status = 0 THEN [f \in DOMAIN pending |-> <<>>]
                  ELSE pending
    /\ UNCHANGED <<files, well_data>>
    /\ UNCHANGED parserVars
    /\ UNCHANGED uploads

\* the status of /api/interpret, were an empty result answered like a full one
InterpretStatusNoGuard(rows) == 200

\* if (rows.length === 0) return res.status(404)
InterpretStatus(rows) == IF Len(rows) = 0 THEN 404 ELSE 200

\* app.post('/api/interpret'); fid = 0 is a missing fileId
Interpret(fid, cl, bd) ==
    /\ res = Idle
    /\ IF fid = 0 \/ Len(cl) = 0
       THEN res' = [op |-> "interpret", status |-> 400, fileId |-> fid,
                    curves |-> cl, minDepth |-> bd[1], maxDepth |-> bd[2]]
       ELSE LET lo == JsParseFloat(bd[1])
                hi == JsParseFloat(bd[2])
            IN  \E found \in DepthOrders(Selected(fid, cl, TRUE, lo, hi)) :
                    LET rows == [k \in DOMAIN found |-> Columns(found[k])]
                        names == {rows[k].curve_name : k \in DOMAIN rows}
                        valuesOf(c) ==
                            LET mine == SelectSeq(rows, LAMBDA r : r.curve_name = c)
                            IN  [k \in DOMAIN mine |-> mine[k].value]
                    IN  IF InterpretStatus(rows) = 404
                        THEN res' = [op |-> "interpret", status |-> 404,
                                     fileId |-> fid, curves |-> cl,
                                     minDepth |-> bd[1], maxDepth |-> bd[2]]
                        ELSE IF GroupingThrows(rows)
                        THEN res' = Uncaught("interpret", fid, cl, bd, rows)
                        ELSE res' = [op |-> "interpret", status |-> 200,
                                     fileId |-> fid, curves |-> cl,
                                     minDepth |-> bd[1], maxDepth |-> bd[2],
                                     rows |-> rows,
                                     depthRange |-> [min |-> JsonNum(lo),
                                                     max |-> JsonNum(hi)],
                                     interpretations |->
                                         [c \in names |-> Statistics(c, valuesOf(c))],
                                     recommendations |-> <<>>]
    /\ pending' = IF res'.status = 0 THEN [f \in DOMAIN pending |-> <<>>]
                  ELSE pending
    /\ UNCHANGED <<files, well_data>>
    /\ UNCHANGED parserVars
    /\ UNCHANGED uploads

\* the response leaves the server
Deliver ==
    /\ res # Idle
    /\ res' = Idle
    /\ UNCHANGED <<files, well_data, pending>>
    /\ UNCHANGED parserVars
    /\ UNCHANGED uploads

ParserUnused ==
    /\ readable = TRUE
    /\ content = <<>>
    /\ pc = "idle"
    /\ i = 0
    /\ curves = <<>>
    /\ data = <<>>
    /\ dataPointCount = 0
    /\ minDepth = Infinity
    /\ maxDepth = NegInfinity
    /\ dataStartIndex = 0

Init ==
    /\ files = <<>>
    /\ well_data = <<>>
    /\ pending = <<>>
    /\ res = Idle
    /\ uploads = NoUploads
    /\ ParserUnused

Next ==
    \/ \E file \in StoreFiles : Upload(file)
    \/ UploadNoFile
    \/ UploadUnreadable
    \/ \E fid \in 1..MaxFiles : ExecInsert(fid)
    \/ \E fid \in 1..MaxFiles : FailInsert(fid)
    \/ \E fid \in QueryFileIds : GetCurves(fid)
    \/ \E fid \in QueryFileIds : GetDepthRange(fid)
    \/ \E fid \in QueryFileIds, cl \in CurveLists, dp \in DepthParams :
          GetData(fid, cl, dp)
    \/ \E fid \in 0..(MaxFiles + 1), cl \in CurveLists, bd \in BodyDepths :
          Interpret(fid, cl, bd)
    \/ Deliver

Spec == Init /\ [][Next]_vars

---------------------------------------------------------------------------
(* The parser over files whose lines are section markers, curve            *)
(* definitions and data rows in any order                                  *)

MaxSectionLines == 4

tTildeASCII == <<"~", "A", "S", "C", "I", "I">>
tTildeDATA == <<"~", "D", "A", "T", "A">>

SectionLines ==
    { <<tGR, tDotAPI>>,             \* GR .API
      <<tTildeA>>,                  \* ~A
      <<tTildeASCII>>,              \* ~ASCII
      <<tTildeDATA>>,               \* ~DATA
      <<tTildeC>>,                  \* ~C
      <<t100_0, t55_2>> }           \* 100.0  55.2

SectionFiles == SeqsUpTo(SectionLines, MaxSectionLines)

SectionInit ==
    /\ readable = TRUE
    /\ content \in SectionFiles
    /\ pc = "read"
    /\ i = 0
    /\ curves = <<>>
    /\ data = <<>>
    /\ dataPointCount = 0
    /\ minDepth = Infinity
    /\ maxDepth = NegInfinity
    /\ dataStartIndex = 0
    /\ ParserIdle

SectionSpec == SectionInit /\ [][ParserNext]_vars

---------------------------------------------------------------------------
(* The parser over files whose data tokens may spell an infinity *)

MaxFiniteLines == 3

tInfinity == <<"I", "n", "f", "i", "n", "i", "t", "y">>
tNegInfinity == <<"-">> \o tInfinity

FiniteLines ==
    { <<t100_0, t55_2>>,            \* 100.0  55.2
      <<tInfinity, t1>>,            \* Infinity 1
      <<t50, tNegInfinity>>,        \* 50 -Infinity
      <<tNegInfinity, tInfinity>> } \* -Infinity Infinity

FiniteFiles ==
    { << <<tGR, tDotAPI>>, <<tTildeA>> >> \o d :
        d \in SeqsUpTo(FiniteLines, MaxFiniteLines) }

FiniteInit ==
    /\ readable = TRUE
    /\ content \in FiniteFiles
    /\ pc = "read"
    /\ i = 0
    /\ curves = <<>>
    /\ data = <<>>
    /\ dataPointCount = 0
    /\ minDepth = Infinity
    /\ maxDepth = NegInfinity
    /\ dataStartIndex = 0
    /\ ParserIdle

FiniteSpec == FiniteInit /\ [][ParserNext]_vars

---------------------------------------------------------------------------
(* /api/interpret over a fully ingested file with one curve *)

MaxPeakLines == 6

PeakDigits == <<"1", "2", "3", "4", "5", "6", "7", "8", "9">>
t9 == <<"9">>
PeakValues == {t1, t2, t9}

\* the files "GR .API", "~A", then n lines "<k>0 <value>" at depths 10, 20, ...
PeakFiles ==
    UNION { { << <<tGR, tDotAPI>>, <<tTildeA>> >>
              \o [k \in 1..n |-> << <<PeakDigits[k], "0">>, v[k] >>]
              : v \in [1..n -> PeakValues] }
            : n \in 1..MaxPeakLines }

\* the store after Upload(file) and every ExecInsert of it
InterpretInit ==
    /\ \E file \in PeakFiles :
          LET parsedData == ParseLASFile(file)
          IN  /\ files = <<[id |-> 1, lines |-> file]>>
              /\ well_data = [k \in DOMAIN parsedData.data |->
                                 Row(1, parsedData.data[k])]
    /\ pending = << <<>> >>
    /\ res = Idle
    /\ uploads = NoUploads
    /\ ParserUnused

InterpretNext ==
    \/ \E cl \in CurveLists, bd \in BodyDepths : Interpret(1, cl, bd)
    \/ Deliver

InterpretSpec == InterpretInit /\ [][InterpretNext]_vars

---------------------------------------------------------------------------
(* /data over a fully ingested file whose curves may bear a name that      *)
(* every object inherits                                                   *)

MaxAssembleLines == 2

AssembleHeaders ==
    { << <<tGR, tDotAPI>> >>, << <<nConstructor, tDotAPI>> >>,
      << <<tGR, tDotAPI>>, <<nConstructor, tDotAPI>> >>,
      << <<nConstructor, tDotAPI>>, <<tGR, tDotAPI>> >> }

AssembleFiles ==
    { h \o << <<tTildeA>> >> \o d :
        h \in AssembleHeaders, d \in SeqsUpTo(StoreDataLines, MaxAssembleLines) }

AssembleCurveLists ==
    { <<>>, <<nGR>>, <<nConstructor>>, <<nGR, nConstructor>> }

\* the store after Upload(file) and every ExecInsert of it
AssembleInit ==
    /\ \E file \in AssembleFiles :
          LET parsedData == ParseLASFile(file)
          IN  /\ files = <<[id |-> 1, lines |-> file]>>
              /\ well_data = [k \in DOMAIN parsedData.data |->
                                 Row(1, parsedData.data[k])]
    /\ pending = << <<>> >>
    /\ res = Idle
    /\ uploads = NoUploads
    /\ ParserUnused

AssembleNext ==
    \/ \E cl \in AssembleCurveLists, dp \in DepthParams : GetData(1, cl, dp)
    \/ Deliver

AssembleSpec == AssembleInit /\ [][AssembleNext]_vars

---------------------------------------------------------------------------
(* Uploads of files with rows that have a depth and no value, and          *)
(* /depth-range                                                            *)

MaxRangeLines == 2

RangeLines ==
    { <<t100_0, t55_2>>,            \* 100.0  55.2
      <<t50, tAbc>>,                \* 50 abc
      <<t150, t1>> }                \* 150 1

RangeFiles ==
    { << <<tGR, tDotAPI>>, <<tTildeA>> >> \o d :
        d \in SeqsUpTo(RangeLines, MaxRangeLines) }

RangeNext ==
    \/ \E file \in RangeFiles : Upload(file)
    \/ \E fid \in 1..MaxFiles : ExecInsert(fid)
    \/ \E fid \in QueryFileIds : GetDepthRange(fid)
    \/ Deliver

RangeSpec == Init /\ [][RangeNext]_vars

---------------------------------------------------------------------------
(* Concurrent uploads.  The handler of /api/upload runs in three steps     *)
(* with the event loop free in between: up to the call of db.run for the   *)
(* file row, the INSERT itself in the database, and the callback of        *)
(* db.run.  The steps of the requests interleave in any order, and so do   *)
(* the sample inserts they queue.                                          *)

\* the handler of request r awaits parseLASFile and calls
\* db.run('INSERT INTO files ...')
UploadParse(r, file) ==
    /\ uploads[r].pc = "idle"
    /\ uploads' = [uploads EXCEPT ![r] =
                      [pc |-> "insert", file |-> file,
                       parsedData |-> ParseLASFile(file)]]
    /\ UNCHANGED <<files, well_data, pending, res>>
    /\ UNCHANGED parserVars

\* the database runs the INSERT INTO files of request r; the rowid it gave
\* is the lastID of that statement
UploadInsertFile(r) ==
    /\ uploads[r].pc = "insert"
    /\ files' = Append(files, [id |-> Len(files) + 1,
                               lines |-> uploads[r].file])
    /\ pending' = Append(pending, <<>>)
    /\ uploads' = [uploads EXCEPT ![r] =
                      [pc |-> "callback", file |-> uploads[r].file,
                       parsedData |-> uploads[r].parsedData,
                       lastID |-> Len(files) + 1]]
    /\ UNCHANGED <<well_data, res>>
    /\ UNCHANGED parserVars

\* the file id of the callback, were it the latest rowid of the connection
CallbackFileIdOfConnection(r) == Len(files)

\* const fileId = this.lastID
CallbackFileId(r) == uploads[r].lastID

\* the callback of db.run for request r: queue one stmt.run per sample and
\* answer
UploadCallback(r) ==
    /\ uploads[r].pc = "callback"
    /\ LET fileId == CallbackFileId(r)
           parsedData == uploads[r].parsedData
       IN  /\ pending' = [pending EXCEPT ![fileId] =
                             @ \o [k \in DOMAIN parsedData.data |->
                                      Row(fileId, parsedData.data[k])]]
           /\ uploads' = [uploads EXCEPT ![r] =
                             [pc |-> "answered", file |-> uploads[r].file,
                              status |-> 200, fileId |-> fileId,
                              curves |-> parsedData.curves,
                              dataPoints |-> Len(parsedData.data)]]
    /\ UNCHANGED <<files, well_data, res>>
    /\ UNCHANGED parserVars

ConcurrentNext ==
    \/ \E r \in 1..ConcurrentUploads, file \in StoreFiles : UploadParse(r, file)
    \/ \E r \in 1..ConcurrentUploads : UploadInsertFile(r)
    \/ \E r \in 1..ConcurrentUploads : UploadCallback(r)
    \/ \E fid \in 1..ConcurrentUploads : ExecInsert(fid)

ConcurrentSpec == Init /\ [][ConcurrentNext]_vars

---------------------------------------------------------------------------
(* The parser's claims, under ParserSpec *)

\* the lines the first loop reads: those before the first data marker, among
\* the first HeaderScanLimit
HeaderEnd ==
    Min(HeaderScanLimit,
        IF DataStart(content) = 0 THEN Len(content) ELSE DataStart(content) - 1)

\* the header lines that define the curve called name
DefLines(name) ==
    {k \in 1..HeaderEnd : IsCurveCandidate(content[k])
                          /\ NormalizeName(content[k][1]) = name}

FirstDef(name) == CHOOSE k \in DefLines(name) : \A n \in DefLines(name) : k <= n

Sample(d, c, v) == [depth |-> d, curveName |-> c, value |-> v]

\* C1: parsing Scenario A's file (header lines DEPTH.FT, GR.API and RES.OHM,
\* then the data line "100.0  55.2  12.1") yields exactly the samples
\* (100.0, GR, 55.2) and (100.0, RES, 12.1), and no curve is a DEPT name.
C1_ScenarioA ==
    (pc = "resolved" /\ content = ScenarioA) =>
        /\ data = <<Sample(1000, nGR, 552), Sample(1000, nRES, 121)>>
        /\ \A k \in DOMAIN curves : ~Includes(curves[k], nDEPT)

\* C2: the curve list holds no name twice, every name in it has a defining
\* header line, the names stand in the order of their first defining lines,
\* and once the header is read every defined name is listed.
C2_DistinctFirstSeenOrder ==
    /\ \A a \in DOMAIN curves : DefLines(curves[a]) # {}
    /\ \A a, b \in DOMAIN curves :
          a < b => /\ curves[a] # curves[b]
                   /\ FirstDef(curves[a]) < FirstDef(curves[b])
    /\ pc \in {"start", "data", "resolved"} =>
          \A k \in 1..HeaderEnd :
              IsCurveCandidate(content[k]) =>
                  NormalizeName(content[k][1]) \in Range(curves)

\* C2's case: a resolved parse whose header defines one name twice and
\* another name after it.
C2_Witness ==
    /\ pc = "resolved"
    /\ Len(curves) >= 2
    /\ \E a \in DOMAIN curves : Cardinality(DefLines(curves[a])) >= 2

\* C3: no name of the catalog contains "DEPT".
C3_NoDeptName == \A k \in DOMAIN curves : ~Includes(curves[k], nDEPT)

\* C4: a data line with a valid depth emits one sample per token k >= 2, for
\* catalog curve k-1, except for the tokens that fail to parse or whose
\* position has no catalog curve; the count is (tokens - 1) minus those.
C4_PositionalCount ==
    [][(pc = "data" /\ i < Len(content) /\ HasDepth(content[i + 1])) =>
        LET line == content[i + 1]
            dropped == {k \in 2..Len(line) :
                           isNaN(ParseFloat(line[k])) \/ k - 1 > Len(curves)}
        IN  /\ Len(data') - Len(data) = (Len(line) - 1) - Cardinality(dropped)
            /\ \A k \in (2..Len(line)) \ dropped :
                  \E m \in (Len(data) + 1)..Len(data') :
                      data'[m] = Sample(ParseFloat(line[1]).v, curves[k - 1],
                                        ParseFloat(line[k]).v)
      ]_vars

\* a data line with fewer than two tokens or a first token that does not parse
IsBadLine(line) == Len(line) < 2 \/ isNaN(ParseFloat(line[1]))

\* C5: a data line whose first token does not parse as a number, or with
\* fewer than two tokens, emits no sample, leaves the depth range alone and
\* raises nothing: the loop goes on to the next line, and in the end every
\* later line with a depth has its first value among the samples.
C5_BadLineSkipped ==
    /\ [][(pc = "data" /\ i < Len(content) /\ IsBadLine(content[i + 1])) =>
            /\ data' = data
            /\ minDepth' = minDepth
            /\ maxDepth' = maxDepth
            /\ pc' = "data"
            /\ i' = i + 1
         ]_vars
    /\ [](pc = "resolved" =>
            \A k \in (dataStartIndex + 1)..Len(content) :
                (HasDepth(content[k]) /\ HasCurve(curves, 0)
                     /\ ~isNaN(ParseFloat(content[k][2]))) =>
                    \E m \in DOMAIN data :
                        data[m] = Sample(ParseFloat(content[k][1]).v, curves[1],
                                         ParseFloat(content[k][2]).v))

\* C5's case (Scenario B): "abc 1 2" was read as a data line, the line after
\* it has a depth, and the parse resolved with that line's samples.
C5_Witness ==
    /\ pc = "resolved"
    /\ \E k \in (dataStartIndex + 1)..(Len(content) - 1) :
          /\ content[k] = <<tAbc, t1, t2>>
          /\ HasDepth(content[k + 1])
    /\ data # <<>>

\* the depths of the lines the data loop has read so far that have one
DepthsSeen ==
    {ParseFloat(content[k][1]).v :
        k \in {n \in (dataStartIndex + 1)..i : HasDepth(content[n])}}

\* C19: while and after the data lines are read, minDepth and maxDepth are
\* the least and the greatest depth of the lines read so far that have a
\* depth; when there is none the range is the empty one (Infinity,
\* -Infinity), no depth at all, and what the upload handler answers for it
\* is null.
C19_DepthRange ==
    pc \in {"data", "resolved"} =>
        IF DepthsSeen = {}
        THEN /\ minDepth = Infinity /\ maxDepth = NegInfinity
             /\ Json(minDepth) = Null /\ Json(maxDepth) = Null
        ELSE /\ minDepth \in DepthsSeen /\ maxDepth \in DepthsSeen
             /\ \A d \in DepthsSeen : minDepth <= d /\ d <= maxDepth

\* C19's case: a resolved parse that read data lines, none with a depth.
C19_Witness ==
    /\ pc = "resolved"
    /\ i > dataStartIndex /\ dataStartIndex > 0
    /\ \E k \in (dataStartIndex + 1)..i : content[k] # <<>>
    /\ DepthsSeen = {}

---------------------------------------------------------------------------
(* The store's claims, under Spec.  A response stays in res until Deliver, *)
(* and the tables do not change meanwhile: res is read against the tables  *)
(* its handler saw.                                                        *)

\* how often x occurs in the sequence q
Count(q, x) == Cardinality({k \in DOMAIN q : q[k] = x})

\* C6: once the upload of a file has answered, the /data request for all of
\* its curves over its reported depth range returns as many samples as the
\* upload reported (the number the parser emitted).
C6_RoundTrip ==
    (res.op = "data" /\ res.status = 200 /\ res.fileId \in DOMAIN files) =>
        LET parsedData == ParseLASFile(files[res.fileId].lines)
        IN  (/\ res.curves = parsedData.curves
             /\ ParseFloat(res.minDepth) = Json(parsedData.depthRange.min)
             /\ ParseFloat(res.maxDepth) = Json(parsedData.depthRange.max))
            => Len(res.rows) = Len(parsedData.data)

\* C7: with both depth bounds given as numbers, the rows of /data are
\* exactly the stored samples of the file whose curve is requested and whose
\* depth lies in [minDepth, maxDepth], each as often as it is stored, in
\* non-decreasing depth order.
C7_QuerySamples ==
    (/\ res.op = "data" /\ res.status = 200
     /\ ~isNaN(ParseFloat(res.minDepth)) /\ ~isNaN(ParseFloat(res.maxDepth))) =>
        LET lo == ParseFloat(res.minDepth).v
            hi == ParseFloat(res.maxDepth).v
            wanted == {k \in DOMAIN well_data :
                          /\ well_data[k].file_id = res.fileId
                          /\ well_data[k].curve_name \in Range(res.curves)
                          /\ lo <= well_data[k].depth
                          /\ well_data[k].depth <= hi}
        IN  /\ Len(res.rows) = Cardinality(wanted)
            /\ \A k \in DOMAIN res.rows :
                  \E j \in wanted : Columns(well_data[j]) = res.rows[k]
            /\ \A j \in wanted :
                  Count(res.rows, Columns(well_data[j]))
                      = Cardinality({n \in wanted : Columns(well_data[n])
                                                      = Columns(well_data[j])})
            /\ \A k \in 1..(Len(res.rows) - 1) :
                  res.rows[k].depth <= res.rows[k + 1].depth

\* C7's case (Scenario D): a window that holds a sample at one of its bounds
\* and leaves out a stored sample of the file and curve, while another file
\* has a sample inside the window and the file has a curve not asked for.
C7_Witness ==
    /\ res.op = "data" /\ res.status = 200
    /\ ~isNaN(ParseFloat(res.minDepth)) /\ ~isNaN(ParseFloat(res.maxDepth))
    /\ LET lo == ParseFloat(res.minDepth).v
           hi == ParseFloat(res.maxDepth).v
       IN  /\ \E k \in DOMAIN res.rows : res.rows[k].depth \in {lo, hi}
           /\ \E j \in DOMAIN well_data :
                 /\ well_data[j].file_id = res.fileId
                 /\ well_data[j].curve_name \in Range(res.curves)
                 /\ (well_data[j].depth < lo \/ well_data[j].depth > hi)
           /\ \E j \in DOMAIN well_data :
                 /\ well_data[j].file_id # res.fileId
                 /\ lo <= well_data[j].depth /\ well_data[j].depth <= hi
           /\ \E j \in DOMAIN well_data :
                 /\ well_data[j].file_id = res.fileId
                 /\ well_data[j].curve_name \notin Range(res.curves)

\* C8: for a file id without rows, /curves answers the empty list,
\* /depth-range a row without minimum and maximum, /data (asked for at least
\* one curve) no rows, each with status 200; and a requested curve the file
\* does not have adds no row and no key to /data's answer.
C8_UnknownFileEmpty ==
    /\ (res.op = "curves" /\ RowsOf(res.fileId) = {}) =>
          (res.status = 200 /\ res.body = <<>>)
    /\ (res.op = "depth-range" /\ RowsOf(res.fileId) = {}) =>
          (res.status = 200
           /\ res.body = [minDepth |-> Null, maxDepth |-> Null])
    /\ (res.op = "data" /\ res.curves # <<>>) =>
          /\ res.status = 200
          /\ RowsOf(res.fileId) = {} =>
                (res.rows = <<>> /\ DOMAIN res.body = {})
          /\ \A c \in Range(res.curves) :
                (\A k \in RowsOf(res.fileId) : well_data[k].curve_name # c) =>
                    /\ c \notin DOMAIN res.body
                    /\ \A k \in DOMAIN res.rows : res.rows[k].curve_name # c

\* C8's case: the store holds samples, and /data was asked for the id of no
\* file.
C8_Witness ==
    /\ well_data # <<>>
    /\ res.op = "data" /\ res.curves # <<>>
    /\ res.fileId \notin DOMAIN files
    /\ res.status = 200

\* C9: /depth-range answers the least and the greatest depth among the rows
\* stored for the file at the time of the call, and a row without minimum
\* and maximum when there is none.
C9_DepthRangeRecomputed ==
    res.op = "depth-range" =>
        /\ res.status = 200
        /\ LET ds == {well_data[k].depth : k \in RowsOf(res.fileId)}
           IN  IF ds = {}
               THEN res.body.minDepth = Null /\ res.body.maxDepth = Null
               ELSE /\ res.body.minDepth.t = "num"
                    /\ res.body.maxDepth.t = "num"
                    /\ res.body.minDepth.v \in ds
                    /\ res.body.maxDepth.v \in ds
                    /\ \A d \in ds : /\ res.body.minDepth.v <= d
                                     /\ d <= res.body.maxDepth.v

\* C9's case: the range of a file some of whose samples are stored and some
\* still queued.
C9_Witness ==
    /\ res.op = "depth-range"
    /\ res.fileId \in DOMAIN pending
    /\ pending[res.fileId] # <<>>
    /\ res.body.minDepth.t = "num"
    /\ res.body.minDepth.v < res.body.maxDepth.v

---------------------------------------------------------------------------
(* The claim on recommendations, under InterpretSpec *)

\* max > average + 2 * population standard deviation, on the exact values:
\* n * max - sum > 2 * sqrt(n * sumsq - sum * sum)
ExceedsPeak(vs) ==
    LET m == Len(vs) * MaxOf(vs) - Sum(vs)
    IN  m * m > 4 * ScaledVariance(vs)

\* C10: /api/interpret answers, for each curve of its result, a high-peak
\* recommendation naming the depth of the first occurrence of the curve's
\* maximum exactly when that maximum exceeds average + 2 standard
\* deviations in the window.
C10_HighPeak ==
    (res.op = "interpret" /\ res.status = 200) =>
        \A c \in DOMAIN res.interpretations :
            LET mine == SelectSeq(res.rows, LAMBDA r : r.curve_name = c)
                vs == [k \in DOMAIN mine |-> mine[k].value]
                first == CHOOSE k \in DOMAIN mine :
                             /\ mine[k].value = MaxOf(vs)
                             /\ \A n \in 1..(k - 1) : mine[n].value # MaxOf(vs)
            IN  ExceedsPeak(vs) <=>
                    \E k \in DOMAIN res.recommendations :
                        /\ res.recommendations[k].curve = c
                        /\ res.recommendations[k].depth = mine[first].depth

---------------------------------------------------------------------------
(* The claims about /api/interpret and /api/upload, under Spec *)

\* the positions /api/interpret's query selects for the request in res
InterpretSelected ==
    Selected(res.fileId, res.curves, TRUE,
             JsParseFloat(res.minDepth), JsParseFloat(res.maxDepth))

\* C11: an answer of /api/interpret to a well-formed request is the no-data
\* outcome (404, no statistics) exactly when the window holds no matching
\* sample; otherwise every curve of the result has at least one sample, and
\* its point count is the number of its samples in the window.
C11_NoEmptyStatistics ==
    (res.op = "interpret" /\ res.status # 400) =>
        /\ InterpretSelected = {} <=> res.status = 404
        /\ res.status = 404 => "interpretations" \notin DOMAIN res
        /\ res.status # 404 =>
              /\ DOMAIN res.interpretations # {}
              /\ \A c \in DOMAIN res.interpretations :
                    /\ res.interpretations[c].statistics.points >= 1
                    /\ res.interpretations[c].statistics.points =
                          Cardinality({k \in InterpretSelected :
                                          well_data[k].curve_name = c})

\* C11's cases: the no-data answer for a file that has samples outside the
\* window, and statistics for two curves.
C11_Witness ==
    /\ res.op = "interpret" /\ res.status = 404
    /\ RowsOf(res.fileId) # {}
    /\ res.minDepth.t = "num"

C11_WitnessStatistics ==
    /\ res.op = "interpret" /\ res.status = 200
    /\ Cardinality(DOMAIN res.interpretations) = 2

\* C12: a step in which /api/upload answers anything but success adds no
\* file row and no sample row and queues no insert, and the upload of an
\* unreadable file answers with an error status.
C12_ParseErrorPersistsNothing ==
    [][/\ (res = Idle /\ res'.op = "upload" /\ res'.status # 200) =>
              UNCHANGED <<files, well_data, pending>>
       /\ UploadUnreadable =>
              (res'.status = 500 /\ UNCHANGED <<files, well_data, pending>>)]_vars

\* C12's case: the error answer to an upload while the store holds a file
\* and samples.
C12_Witness ==
    /\ res.op = "upload" /\ res.status = 500
    /\ files # <<>>
    /\ well_data # <<>>

\* the samples parseLASFile emitted for the file of id fid
ParsedCount(fid) == Len(ParseLASFile(files[fid].lines).data)

\* C13: Ingest has not answered success for a file one of whose sample
\* writes fails: while the success answer for a file is on its way, the
\* writes of that file are either still queued or all stored.
C13_WriteFailureSurfaced ==
    (res.op = "upload" /\ res.status = 200) =>
        \/ pending[res.fileId] # <<>>
        \/ Cardinality(RowsOf(res.fileId)) = res.dataPoints

\* C14: once no insert of a file is queued any more, the store holds either
\* every sample the parser emitted for the file or none of them.
C14_AtomicBatch ==
    \A fid \in DOMAIN files :
        pending[fid] = <<>> =>
            Cardinality(RowsOf(fid)) \in {0, ParsedCount(fid)}

\* C20: when /api/upload answers success for a file, no insert of that file
\* is still queued and every sample the answer counts is stored.
C20_IngestCompletes ==
    (res.op = "upload" /\ res.status = 200) =>
        /\ pending[res.fileId] = <<>>
        /\ Cardinality(RowsOf(res.fileId)) = res.dataPoints

\* C15: /data answers every request that names curves, and the body of its
\* answer has a key for exactly the curves that
\* occur in the queried rows; the series of a curve holds each (depth, value)
\* as often as the rows of that curve do, by non-decreasing depth; and the
\* lengths of the series add up to the number of rows.
C15_AssembleGroups ==
    (res.op = "data" /\ res.status # 400) =>
        LET rowsOf(c) == {k \in DOMAIN res.rows : res.rows[k].curve_name = c}
        IN  /\ res.status = 200
            /\ DOMAIN res.body = {res.rows[k].curve_name : k \in DOMAIN res.rows}
            /\ \A c \in DOMAIN res.body :
                  /\ Len(res.body[c]) = Cardinality(rowsOf(c))
                  /\ \A k \in rowsOf(c) :
                        LET e == [depth |-> res.rows[k].depth,
                                  value |-> res.rows[k].value]
                        IN  Count(res.body[c], e) =
                              Cardinality({m \in rowsOf(c) :
                                              /\ res.rows[m].depth = e.depth
                                              /\ res.rows[m].value = e.value})
                  /\ \A k \in 1..(Len(res.body[c]) - 1) :
                        res.body[c][k].depth <= res.body[c][k + 1].depth
            /\ LET ns == SortNames(DOMAIN res.body)
               IN  Sum([k \in DOMAIN ns |-> Len(res.body[ns[k]])])
                     = Len(res.rows)

---------------------------------------------------------------------------
(* The claims about sections, under SectionSpec *)

\* a line that starts with one of the markers ~A, ~ASCII, ~DATA
IsDataSectionMarker(line) ==
    \/ LineStartsWith(line, tTildeA)
    \/ LineStartsWith(line, tTildeASCII)
    \/ LineStartsWith(line, tTildeDATA)

\* the index of the first such line of the file, 0 when there is none
FirstDataSectionMarker ==
    LET ms == {k \in DOMAIN content : IsDataSectionMarker(content[k])}
    IN  IF ms = {} THEN 0 ELSE CHOOSE k \in ms : \A n \in ms : k <= n

\* C16: when the first line of a file that starts with ~A, ~ASCII or ~DATA
\* is line m, every curve of the result is defined by a line before m, and
\* every row with a depth between m and the next line that starts with "~"
\* has its samples in the result.
C16_MarkerStartsData ==
    (pc = "resolved" /\ FirstDataSectionMarker # 0) =>
        LET m == FirstDataSectionMarker
        IN  /\ \A a \in DOMAIN curves :
                  \E k \in 1..(m - 1) :
                      /\ IsCurveCandidate(content[k])
                      /\ NormalizeName(content[k][1]) = curves[a]
            /\ \A k \in (m + 1)..Len(content) :
                  (/\ HasDepth(content[k])
                   /\ \A n \in (m + 1)..k : ~LineStartsWith(content[n], <<"~">>))
                    => \A e \in Range(LineSamples(curves, content[k])) :
                          e \in Range(data)

\* C17: a step that emits samples reads a line after the first line that
\* starts with ~A, ~ASCII or ~DATA; a file without such a line has no
\* sample emitted.
C17_NoSampleBeforeMarker ==
    [][data' # data =>
          (FirstDataSectionMarker # 0 /\ i + 1 > FirstDataSectionMarker)]_vars

\* line k comes after a ~C line that itself comes after a data marker, with
\* no data marker between that ~C line and line k
BackInHeader(k) ==
    \E c \in 1..(k - 1) :
        /\ LineStartsWith(content[c], tTildeC)
        /\ \E m \in 1..(c - 1) : IsDataSectionMarker(content[m])
        /\ \A n \in (c + 1)..(k - 1) : ~IsDataSectionMarker(content[n])

\* C18: no step emits samples from a line that follows a ~C line of the
\* data section, until another data marker is read.
C18_CurveMarkerReturnsToHeader ==
    [][data' # data => ~BackInHeader(i + 1)]_vars

---------------------------------------------------------------------------
(* The claims about buffering and names, under ParserSpec *)

\* the size of a batch, scaled to the files of the model
BatchRows == 2

\* C21: at every point of a parse the samples parsed and not yet passed to
\* the store number at most one batch.  parseLASFile passes nothing on
\* before it resolves, so these are the samples in data.
C21_BoundedBatches == Len(data) <= BatchRows

\* C23: no name of the catalog is empty.
C23_NoEmptyName == \A k \in DOMAIN curves : curves[k] # <<>>

---------------------------------------------------------------------------
(* The claim about finite samples, under FiniteSpec *)

IsFinite(x) == x # Infinity /\ x # NegInfinity

\* C22: every sample the parser has emitted has a finite depth and a finite
\* value.
C22_FiniteSamples ==
    \A k \in DOMAIN data : IsFinite(data[k].depth) /\ IsFinite(data[k].value)

---------------------------------------------------------------------------
(* The claim about the reported depth range, under RangeSpec *)

\* C24: once every sample of an uploaded file is stored, /depth-range
\* answers the range the upload answered, which is that of parseLASFile.
C24_ReportedRange ==
    (/\ res.op = "depth-range"
     /\ res.fileId \in DOMAIN files
     /\ pending[res.fileId] = <<>>
     /\ Cardinality(RowsOf(res.fileId)) = ParsedCount(res.fileId)) =>
        LET dr == ParseLASFile(files[res.fileId].lines).depthRange
        IN  /\ res.body.minDepth = Json(dr.min)
            /\ res.body.maxDepth = Json(dr.max)

---------------------------------------------------------------------------
(* The claim about the two read paths, under Spec *)

\* the positions /data's query selects for the file, curves and window of
\* the /api/interpret request in res: the window is applied when both of
\* its bounds are given
DataSelected ==
    Selected(res.fileId, res.curves,
             res.minDepth.t = "num" /\ res.maxDepth.t = "num",
             res.minDepth, res.maxDepth)

\* C26: the samples an answer of /api/interpret is computed from (none for
\* the no-data answer) are those /data selects for the same file, curves
\* and window.
C26_SamePathsSelect ==
    (res.op = "interpret" /\ res.status \in {200, 404}) =>
        LET got == IF res.status = 404 THEN {} ELSE Range(res.rows)
        IN  got = {Columns(well_data[k]) : k \in DataSelected}

---------------------------------------------------------------------------
(* The claim about concurrent uploads, under ConcurrentSpec *)

\* the rows of file fid the parser's samples of its file make, in order
ParsedRows(fid) ==
    LET parsedData == ParseLASFile(files[fid].lines)
    IN  [k \in DOMAIN parsedData.data |-> Row(fid, parsedData.data[k])]

\* C25: every row stored or queued under a file id is a sample parsed from
\* the file of that id; the file id answered to a request is that of the
\* row of its own file; and once every request is answered and every
\* insert has run, the rows stored under each file id are exactly the
\* samples parsed from that file.
C25_RowsUnderOwnFile ==
    /\ \A k \in DOMAIN well_data :
          well_data[k] \in Range(ParsedRows(well_data[k].file_id))
    /\ \A f \in DOMAIN pending :
          \A k \in DOMAIN pending[f] :
              /\ pending[f][k].file_id = f
              /\ pending[f][k] \in Range(ParsedRows(f))
    /\ \A r \in DOMAIN uploads :
          uploads[r].pc = "answered" =>
              /\ uploads[r].fileId \in DOMAIN files
              /\ files[uploads[r].fileId].lines = uploads[r].file
    /\ ((\A r \in DOMAIN uploads : uploads[r].pc \in {"idle", "answered"})
        /\ \A f \in DOMAIN pending : pending[f] = <<>>)
          => \A f \in DOMAIN files :
                SelectSeq(well_data, LAMBDA w : w.file_id = f) = ParsedRows(f)

\* C25's case: two requests with different files are answered and every
\* insert has run, the second file's first row before a row of the first.
C25_Witness ==
    /\ \A r \in DOMAIN uploads : uploads[r].pc = "answered"
    /\ uploads[1].file # uploads[2].file
    /\ \A f \in DOMAIN pending : pending[f] = <<>>
    /\ \E j, k \in DOMAIN well_data :
          j < k /\ well_data[j].file_id = 2 /\ well_data[k].file_id = 1
    /\ uploads[1].fileId = 2

=============================================================================
